---- MODULE Spec2Model ----
(***************************************************************************)
(* Attendance tracking (gabucito/timesheet): the barcode-scan handler that *)
(* clocks workers in and out, the live view computed by refresh_workers,   *)
(* and the monthly aggregation of build_rows / to_report_row.              *)
(*                                                                         *)
(* Instants are chrono DateTime<Utc> values at one-second resolution, held *)
(* as Unix seconds.  A NaiveDate is held as its number of days since       *)
(* 1970-01-01.  A Rust String is a sequence of one-character strings, and  *)
(* Option<T> is a sequence of length at most one.                          *)
(***************************************************************************)
EXTENDS Integers, Sequences, FiniteSets, TLC

VARIABLES workers, timesheets, now, last_scan_time, last_scan_barcode,
          in_progress_workers, not_in_progress_workers, view_today,
          in_progress_worker_items, not_in_progress_worker_items,
          report_call, worker_rows, worker_rows_again,
          files, writes, report_result,
          fn_call, fn_result

vars == <<workers, timesheets, now, last_scan_time, last_scan_barcode,
          in_progress_workers, not_in_progress_workers, view_today,
          in_progress_worker_items, not_in_progress_worker_items,
          report_call, worker_rows, worker_rows_again,
          files, writes, report_result,
          fn_call, fn_result>>

scan_vars == <<last_scan_time, last_scan_barcode>>
view_vars == <<in_progress_workers, not_in_progress_workers, view_today,
               in_progress_worker_items, not_in_progress_worker_items>>
report_vars == <<report_call, worker_rows, worker_rows_again>>
file_vars == <<files, writes, report_result>>
fn_vars == <<fn_call, fn_result>>

\* ------------------------------------------------------------------ bounds

\* Seconds the wall clock may advance past StartTime in Spec.
MaxClock == 2
\* Rows the timesheets table may hold in Spec.
MaxEvents == 3
\* Rows of the timesheets table drawn in SpecRows.
MaxEntries == 2
\* Workers the store lists in SpecReports.
MaxWorkers == 2
\* Characters of a name given to sanitize_filename in SpecFns.
MaxNameLen == 3
\* Largest minute count given to format_duration in SpecFns.
MaxMinutes == 6100

\* ----------------------------------------------------------------- options

None == <<>>
Some(x) == <<x>>
IsSome(o) == Len(o) = 1
Unwrap(o) == o[1]

\* ---------------------------------------------------------------- calendar

SecondsPerDay == 24 * 60 * 60

\* chrono NaiveDate::from_ymd: the proleptic Gregorian date as days since
\* 1970-01-01.
days_from_civil(y, m, d) ==
    LET yy  == IF m <= 2 THEN y - 1 ELSE y
        era == yy \div 400
        yoe == yy - era * 400
        mp  == (m + 9) % 12
        doy == (153 * mp + 2) \div 5 + d - 1
        doe == yoe * 365 + yoe \div 4 - yoe \div 100 + doy
    IN  era * 146097 + doe - 719468

\* chrono Datelike: the year, month and day of month of a NaiveDate.
civil_from_days(z0) ==
    LET z   == z0 + 719468
        era == z \div 146097
        doe == z - era * 146097
        yoe == (doe - doe \div 1460 + doe \div 36524 - doe \div 146096) \div 365
        doy == doe - (365 * yoe + yoe \div 4 - yoe \div 100)
        mp  == (5 * doy + 2) \div 153
        d   == doy - (153 * mp + 2) \div 5 + 1
        m   == IF mp < 10 THEN mp + 3 ELSE mp - 9
        y   == yoe + era * 400 + (IF m <= 2 THEN 1 ELSE 0)
    IN  [year |-> y, month |-> m, day |-> d]

MonthOf(date) == civil_from_days(date).month
YearOf(date) == civil_from_days(date).year

\* chrono Weekday of a NaiveDate, Monday = 0 .. Sunday = 6 (1970-01-01 was
\* a Thursday).
WeekdayOf(date) == (date + 3) % 7
Sun == 6

\* A DateTime<Utc> from its calendar fields.
Instant(y, mo, d, h, mi, s) ==
    days_from_civil(y, mo, d) * SecondsPerDay + h * 3600 + mi * 60 + s

\* Utc::now().format("%Y-%m-%d") and SQLite date(clock_in) on the stored
\* RFC 3339 UTC text: the UTC calendar date of an instant.
UtcDate(t) == t \div SecondsPerDay

\* chrono_tz America/Santiago: the UTC offset in force at instant t.  Summer
\* time (UTC-3) ended on 2024-04-07 at 03:00 UTC, when local clocks went
\* from 24:00 back to 23:00 of Saturday 2024-04-06; standard time is UTC-4.
\* (Valid from 2023-09-03 to 2024-09-08, which holds every instant used.)
SantiagoDstEnd == Instant(2024, 4, 7, 3, 0, 0)
SantiagoOffset(t) == IF t < SantiagoDstEnd THEN -3 * 3600 ELSE -4 * 3600

\* with_timezone(&Santiago): the local wall-clock reading of instant t.
LocalSeconds(t) == t + SantiagoOffset(t)
\* .date_naive() of the local reading.
LocalDate(t) == LocalSeconds(t) \div SecondsPerDay
\* seconds since local midnight.
LocalTimeOfDay(t) == LocalSeconds(t) % SecondsPerDay

\* ----------------------------------------------------------------- strings

Digits == <<"0", "1", "2", "3", "4", "5", "6", "7", "8", "9">>

RECURSIVE Decimal(_)
\* Display of a non-negative integer.
Decimal(n) ==
    IF n < 10 THEN <<Digits[n + 1]>>
    ELSE Decimal(n \div 10) \o <<Digits[(n % 10) + 1]>>

\* format!("{:02}", n): at least two characters, zero-padded, the sign
\* taking one of them.
Pad2(n) ==
    IF n < 0 THEN <<"-">> \o Decimal(-n)
    ELSE IF n < 10 THEN <<"0">> \o Decimal(n)
    ELSE Decimal(n)

\* format("%H:%M:%S") of a time of day.
FormatHMS(tod) ==
    Pad2(tod \div 3600) \o <<":">> \o Pad2((tod % 3600) \div 60)
        \o <<":">> \o Pad2(tod % 60)

\* The code point order of the characters that occur in labels.
CharCode(c) ==
    CASE c = "*" -> 42
      [] c = "-" -> 45
      [] c = ":" -> 58
      [] OTHER   -> 48 + (CHOOSE i \in 0..9 : Digits[i + 1] = c)

RECURSIVE StrCmp(_, _)
\* String::cmp: -1, 0 or 1 by lexicographic order of the characters.
StrCmp(a, b) ==
    IF a = <<>> /\ b = <<>> THEN 0
    ELSE IF a = <<>> THEN -1
    ELSE IF b = <<>> THEN 1
    ELSE IF CharCode(Head(a)) < CharCode(Head(b)) THEN -1
    ELSE IF CharCode(Head(a)) > CharCode(Head(b)) THEN 1
    ELSE StrCmp(Tail(a), Tail(b))

\* ------------------------------------------------------------------ barcode

IsAsciiDigit(ch) == \E i \in 1..10 : Digits[i] = ch
IsTrimmed(ch) == ch \in {" ", "\t", "\n", "\r", "BOM"}

RECURSIVE TrimStart(_)
TrimStart(s) ==
    IF s # <<>> /\ IsTrimmed(Head(s)) THEN TrimStart(Tail(s)) ELSE s

RECURSIVE TrimEnd(_)
TrimEnd(s) ==
    IF s # <<>> /\ IsTrimmed(s[Len(s)])
    THEN TrimEnd(SubSeq(s, 1, Len(s) - 1)) ELSE s

\* barcode::normalize: trim whitespace and BOM, keep only ASCII digits.
normalize(raw) == SelectSeq(TrimEnd(TrimStart(raw)), IsAsciiDigit)

\* -------------------------------------------------------------------- store

\* The workers table the scan handler runs against (all rows active), in
\* rowid order.
WorkersTable ==
    << [id |-> 1, name |-> <<"A", "n", "a">>, barcode |-> <<"1">>, active |-> TRUE],
       [id |-> 2, name |-> <<"B", "o", "b">>, barcode |-> <<"2">>, active |-> TRUE] >>

WorkerIds == {workers[i].id : i \in 1..Len(workers)}

IsActive(w) == w.active
\* db::get_workers: SELECT ... FROM workers WHERE active = 1.
get_workers == SelectSeq(workers, IsActive)

\* db::get_worker_by_barcode: the worker carrying that barcode, if any.
get_worker_by_barcode(barcode) ==
    LET hit == {i \in 1..Len(workers) : workers[i].barcode = barcode}
    IN  IF hit = {} THEN None
        ELSE Some(workers[CHOOSE i \in hit : \A j \in hit : i <= j])

\* get_current_status with the worker condition applied after LIMIT 1: only
\* the newest row of the table is looked at.
get_current_status_NewestRowOnly(table, worker_id) ==
    IF /\ table # <<>>
       /\ table[Len(table)].worker_id = worker_id
       /\ table[Len(table)].clock_out = None
    THEN Some(table[Len(table)])
    ELSE None

\* db::get_current_status: the worker's open row with the largest id.
get_current_status(table, worker_id) ==
    LET open == {i \in 1..Len(table) :
                    table[i].worker_id = worker_id /\ table[i].clock_out = None}
    IN  IF open = {} THEN None
        ELSE Some(table[CHOOSE i \in open : \A j \in open : table[j].id <= table[i].id])

\* db::clock_in: INSERT a row (worker_id, clock_in = now); the rowid is one
\* more than the largest in the table.
clock_in(table, worker_id, t) ==
    Append(table, [id |-> Len(table) + 1, worker_id |-> worker_id,
                   clock_in |-> t, clock_out |-> None])

\* The UPDATE without "AND clock_out IS NULL": every row of the worker gets
\* the new clock_out.
clock_out_EveryRowOfWorker(table, worker_id, t) ==
    [i \in 1..Len(table) |->
        IF table[i].worker_id = worker_id
        THEN [table[i] EXCEPT !.clock_out = Some(t)]
        ELSE table[i]]

\* The UPDATE without "worker_id = ?": every open row of the table gets the
\* clock_out.
clock_out_EveryOpenRow(table, worker_id, t) ==
    [i \in 1..Len(table) |->
        IF table[i].clock_out = None
        THEN [table[i] EXCEPT !.clock_out = Some(t)]
        ELSE table[i]]

\* db::clock_out: UPDATE every open row of the worker, SET clock_out = now.
clock_out(table, worker_id, t) ==
    [i \in 1..Len(table) |->
        IF table[i].worker_id = worker_id /\ table[i].clock_out = None
        THEN [table[i] EXCEPT !.clock_out = Some(t)]
        ELSE table[i]]

\* db::get_daily_timesheet_entries: the worker's rows whose clock_in falls
\* on the given (UTC) date, ordered by id.
get_daily_timesheet_entries(table, worker_id, date) ==
    LET Keep(e) == e.worker_id = worker_id /\ UtcDate(e.clock_in) = date
    IN  SelectSeq(table, Keep)

\* db::get_monthly_timesheet_entries: the worker's rows whose clock_in falls
\* in the given (UTC) month, ordered by id.
get_monthly_timesheet_entries(table, worker_id, month_key) ==
    LET Keep(e) ==
            /\ e.worker_id = worker_id
            /\ YearOf(UtcDate(e.clock_in)) = month_key[1]
            /\ MonthOf(UtcDate(e.clock_in)) = month_key[2]
    IN  SelectSeq(table, Keep)

\* ------------------------------------------------------------------ reports

\* format_duration writing the minutes without padding, "{:02}:{}".
format_duration_MinutesUnpadded(minutes) ==
    Pad2(minutes \div 60) \o <<":">> \o Decimal(minutes % 60)

\* format_duration: "{:02}:{:02}" of minutes / 60 and minutes % 60.
format_duration(minutes) == Pad2(minutes \div 60) \o <<":">> \o Pad2(minutes % 60)

\* chrono Duration::num_minutes: whole minutes, truncated toward zero.
num_minutes(seconds) ==
    IF seconds >= 0 THEN seconds \div 60 ELSE -((-seconds) \div 60)

\* to_report_row taking the row's date from the UTC instant.
to_report_row_UtcDate(entry, t) ==
    LET start_utc == entry.clock_in
        is_open   == entry.clock_out = None
        end_utc   == IF is_open THEN t ELSE Unwrap(entry.clock_out)
        raw       == num_minutes(end_utc - start_utc)
        duration_minutes == IF raw < 0 THEN 0 ELSE raw
        end_label == FormatHMS(LocalTimeOfDay(end_utc))
    IN  [date             |-> UtcDate(start_utc),
         clock_in         |-> FormatHMS(LocalTimeOfDay(start_utc)),
         clock_out        |-> IF is_open THEN end_label \o <<"*">> ELSE end_label,
         duration_minutes |-> duration_minutes,
         duration_label   |-> format_duration(duration_minutes),
         is_open          |-> is_open,
         entry_id         |-> entry.id]

\* to_report_row leaving the marker off the label of an open session.
to_report_row_NoMarker(entry, t) ==
    LET start_utc == entry.clock_in
        is_open   == entry.clock_out = None
        end_utc   == IF is_open THEN t ELSE Unwrap(entry.clock_out)
        raw       == num_minutes(end_utc - start_utc)
        duration_minutes == IF raw < 0 THEN 0 ELSE raw
    IN  [date             |-> LocalDate(start_utc),
         clock_in         |-> FormatHMS(LocalTimeOfDay(start_utc)),
         clock_out        |-> FormatHMS(LocalTimeOfDay(end_utc)),
         duration_minutes |-> duration_minutes,
         duration_label   |-> format_duration(duration_minutes),
         is_open          |-> is_open,
         entry_id         |-> entry.id]

\* to_report_row without the floor at zero.
to_report_row_NoClamp(entry, t) ==
    LET start_utc == entry.clock_in
        is_open   == entry.clock_out = None
        end_utc   == IF is_open THEN t ELSE Unwrap(entry.clock_out)
        duration_minutes == num_minutes(end_utc - start_utc)
        end_label == FormatHMS(LocalTimeOfDay(end_utc))
    IN  [date             |-> LocalDate(start_utc),
         clock_in         |-> FormatHMS(LocalTimeOfDay(start_utc)),
         clock_out        |-> IF is_open THEN end_label \o <<"*">> ELSE end_label,
         duration_minutes |-> duration_minutes,
         duration_label   |-> format_duration(duration_minutes),
         is_open          |-> is_open,
         entry_id         |-> entry.id]

\* to_report_row reading the end of an open session from a clock that is a
\* minute past the now of the run.
to_report_row_ClockReadLater(entry, t) ==
    LET start_utc == entry.clock_in
        is_open   == entry.clock_out = None
        end_utc   == IF is_open THEN t + 60 ELSE Unwrap(entry.clock_out)
        raw       == num_minutes(end_utc - start_utc)
        duration_minutes == IF raw < 0 THEN 0 ELSE raw
        end_label == FormatHMS(LocalTimeOfDay(end_utc))
    IN  [date             |-> LocalDate(start_utc),
         clock_in         |-> FormatHMS(LocalTimeOfDay(start_utc)),
         clock_out        |-> IF is_open THEN end_label \o <<"*">> ELSE end_label,
         duration_minutes |-> duration_minutes,
         duration_label   |-> format_duration(duration_minutes),
         is_open          |-> is_open,
         entry_id         |-> entry.id]

\* to_report_row: one entry as a report row, t being what Utc::now() reads.
\* entry_id is not a field of ReportRow: it records which entry the row was
\* made from, so that properties can tell equal-looking rows apart.
to_report_row(entry, t) ==
    LET start_utc == entry.clock_in
        is_open   == entry.clock_out = None
        end_utc   == IF is_open THEN t ELSE Unwrap(entry.clock_out)
        raw       == num_minutes(end_utc - start_utc)
        duration_minutes == IF raw < 0 THEN 0 ELSE raw
        end_label == FormatHMS(LocalTimeOfDay(end_utc))
    IN  [date             |-> LocalDate(start_utc),
         clock_in         |-> FormatHMS(LocalTimeOfDay(start_utc)),
         clock_out        |-> IF is_open THEN end_label \o <<"*">> ELSE end_label,
         duration_minutes |-> duration_minutes,
         duration_label   |-> format_duration(duration_minutes),
         is_open          |-> is_open,
         entry_id         |-> entry.id]

\* build_rows: the row pushed for a day without entries.
PlaceholderRow(day) ==
    [date             |-> day,
     clock_in         |-> <<"-", "-", ":", "-", "-", ":", "-", "-">>,
     clock_out        |-> <<"-", "-", ":", "-", "-", ":", "-", "-">>,
     duration_minutes |-> 0,
     duration_label   |-> format_duration(0),
     is_open          |-> FALSE,
     entry_id         |-> 0]

\* The comparator of rows.sort_by: a.clock_in.cmp(&b.clock_in) is Less.
RowLess(a, b) == StrCmp(a.clock_in, b.clock_in) < 0

RECURSIVE InsertRow(_, _)
InsertRow(sorted, x) ==
    IF sorted = <<>> THEN <<x>>
    ELSE IF RowLess(x, Head(sorted)) THEN <<x>> \o sorted
    ELSE <<Head(sorted)>> \o InsertRow(Tail(sorted), x)

RECURSIVE SortRows(_)
\* rows.sort_by(...): a stable sort by the clock_in label.
SortRows(rows) ==
    IF rows = <<>> THEN <<>>
    ELSE InsertRow(SortRows(SubSeq(rows, 1, Len(rows) - 1)), rows[Len(rows)])

RECURSIVE SumMinutes(_)
\* build_rows, the first loop: total_minutes over the rows of every entry.
SumMinutes(rows) ==
    IF rows = <<>> THEN 0
    ELSE (IF Head(rows).duration_minutes >= 0 THEN Head(rows).duration_minutes ELSE 0)
         + SumMinutes(Tail(rows))

\* The loop body without the push of a placeholder row.
DayGroupOf_NoPlaceholder(grouped, current_day) ==
    LET OnDay(r) == r.date = current_day
    IN  [date       |-> current_day,
         rows       |-> SortRows(SelectSeq(grouped, OnDay)),
         is_weekend |-> WeekdayOf(current_day) = Sun]

\* The day-group flagged on both days of the weekend.
DayGroupOf_SaturdayToo(grouped, current_day) ==
    LET OnDay(r) == r.date = current_day
        rows     == SelectSeq(grouped, OnDay)
    IN  [date       |-> current_day,
         rows       |-> IF rows = <<>> THEN <<PlaceholderRow(current_day)>>
                        ELSE SortRows(rows),
         is_weekend |-> WeekdayOf(current_day) \in {Sun - 1, Sun}]

\* build_rows, the body of the while loop: the day-group of current_day.
\* grouped is held as the rows of all entries in entry order; the rows the
\* BTreeMap holds under a date are those with that date, in that order.
DayGroupOf(grouped, current_day) ==
    LET OnDay(r) == r.date = current_day
        rows     == SelectSeq(grouped, OnDay)
    IN  [date       |-> current_day,
         rows       |-> IF rows = <<>> THEN <<PlaceholderRow(current_day)>>
                        ELSE SortRows(rows),
         is_weekend |-> WeekdayOf(current_day) = Sun]

\* build_rows: the last day the loop may reach, selected_date capped at
\* month_start + 30 days.
EndDate(month_start, selected_date) ==
    IF selected_date < month_start + 30 THEN selected_date ELSE month_start + 30

RECURSIVE WalkDays_NoMonthTest(_, _, _, _)
\* The while loop without its test of current_day.month().
WalkDays_NoMonthTest(grouped, month_start, end_date, current_day) ==
    IF current_day <= end_date
    THEN <<DayGroupOf(grouped, current_day)>>
            \o WalkDays_NoMonthTest(grouped, month_start, end_date, current_day + 1)
    ELSE <<>>

RECURSIVE WalkDays(_, _, _, _)
\* build_rows, the while loop from current_day on.
WalkDays(grouped, month_start, end_date, current_day) ==
    IF current_day <= end_date /\ MonthOf(current_day) = MonthOf(month_start)
    THEN <<DayGroupOf(grouped, current_day)>>
            \o WalkDays(grouped, month_start, end_date, current_day + 1)
    ELSE <<>>

\* build_rows: the day-groups and totals of one worker for one month, from
\* the first of the month to selected_date.  month_key is <<year, month>>.
build_rows(table, worker_id, month_key, selected_date, t) ==
    LET entries == get_monthly_timesheet_entries(table, worker_id, month_key)
        grouped == [i \in 1..Len(entries) |-> to_report_row(entries[i], t)]
        month_start == days_from_civil(month_key[1], month_key[2], 1)
        end_date == EndDate(month_start, selected_date)
    IN  [day_groups        |-> WalkDays(grouped, month_start, end_date, month_start),
         total_minutes     |-> SumMinutes(grouped),
         has_open_sessions |-> \E i \in 1..Len(grouped) : grouped[i].is_open]

\* ------------------------------------------------------- report documents

AsciiLetters ==
    { "a", "b", "c", "d", "e", "f", "g", "h", "i", "j", "k", "l", "m",
      "n", "o", "p", "q", "r", "s", "t", "u", "v", "w", "x", "y", "z",
      "A", "B", "C", "D", "E", "F", "G", "H", "I", "J", "K", "L", "M",
      "N", "O", "P", "Q", "R", "S", "T", "U", "V", "W", "X", "Y", "Z" }

\* char::is_ascii_alphanumeric.
is_ascii_alphanumeric(ch) == ch \in AsciiLetters \/ IsAsciiDigit(ch)

\* sanitize_filename: every character that is not ASCII-alphanumeric becomes
\* '_' (both non-alphanumeric branches push '_'); "worker" when the result
\* is empty.
sanitize_filename(name) ==
    LET result == [i \in 1..Len(name) |->
                      IF is_ascii_alphanumeric(name[i]) THEN name[i] ELSE "_"]
    IN  IF result = <<>> THEN <<"w", "o", "r", "k", "e", "r">> ELSE result

RECURSIVE escape_html(_)
\* escape_html: & < > " ' replaced by their entities.
escape_html(value) ==
    IF value = <<>> THEN <<>>
    ELSE (CASE Head(value) = "&"  -> <<"&", "a", "m", "p", ";">>
            [] Head(value) = "<"  -> <<"&", "l", "t", ";">>
            [] Head(value) = ">"  -> <<"&", "g", "t", ";">>
            [] Head(value) = "\"" -> <<"&", "q", "u", "o", "t", ";">>
            [] Head(value) = "'"  -> <<"&", "#", "3", "9", ";">>
            [] OTHER              -> <<Head(value)>>)
         \o escape_html(Tail(value))

\* weekday_name_es, of a weekday counted from Monday = 0.
weekday_name_es(weekday) ==
    CASE weekday = 0 -> "lunes"
      [] weekday = 1 -> "martes"
      [] weekday = 2 -> "miércoles"
      [] weekday = 3 -> "jueves"
      [] weekday = 4 -> "viernes"
      [] weekday = 5 -> "sábado"
      [] weekday = 6 -> "domingo"

\* month.format("%Y-%m") of the month <<year, month>>.
month_label(month_key) == Decimal(month_key[1]) \o <<"-">> \o Pad2(month_key[2])

\* date.format("%m/%d").
FormatMD(date) ==
    Pad2(civil_from_days(date).month) \o <<"/">> \o Pad2(civil_from_days(date).day)

\* A document is the sequence of what was written into the String: Lit is
\* text of the format string itself (long literals are cut short with
\* "..."), Arg the text substituted for one of its {} places.
Lit(text) == [kind |-> "lit", text |-> text]
Arg(site, chars) == [kind |-> "arg", site |-> site, chars |-> chars]

PageBreak == Lit("<div class=\"page-break\"></div>")
\* The row written into a table that has no day-group, and the line written
\* into a CSV file that has none.
NoSessionsRow == Lit("<tr><td colspan=\"4\">No recorded sessions for this month.</td></tr>")
CsvNoSessionsRow == Lit("-, -, -, -, 0, 00:00\n")
Footnote == Lit("<p>* Entries marked with an asterisk do not have a recorded clock out; the current time was used to compute the duration.</p>")

\* The <tr> elements of one day-group, index counted from 0 as enumerate()
\* does.  weekday is what build_rows stores in group.weekday_name.
GroupRows(group, index) ==
    LET base_class == IF index % 2 = 0 THEN "day-even" ELSE "day-odd"
        class == IF group.is_weekend
                 THEN (IF index % 2 = 0 THEN "day-even weekend" ELSE "day-odd weekend")
                 ELSE base_class
    IN  [row_idx \in 1..Len(group.rows) |->
            [kind     |-> "tr",
             class    |-> class,
             day_cell |-> IF row_idx = 1
                          THEN Some([rowspan |-> Len(group.rows),
                                     date    |-> FormatMD(group.date),
                                     weekday |-> weekday_name_es(WeekdayOf(group.date))])
                          ELSE None,
             clock_in       |-> group.rows[row_idx].clock_in,
             clock_out      |-> group.rows[row_idx].clock_out,
             duration_label |-> group.rows[row_idx].duration_label]]

RECURSIVE AllGroupRows(_, _)
\* The rows of the day-groups from the one with the given index on.
AllGroupRows(day_groups, index) ==
    IF index >= Len(day_groups) THEN <<>>
    ELSE GroupRows(day_groups[index + 1], index) \o AllGroupRows(day_groups, index + 1)

\* write_html_report / write_merged_html_report: the table of one worker and
\* the total under it.
TableAndTotal(day_groups, total_minutes) ==
    <<Lit("<table><thead><tr><th>Date</th><th>Clock In</th><th>Clock Out</th><th>Duration (HH:MM)</th></tr></thead><tbody>")>>
    \o (IF day_groups = <<>>
        THEN <<NoSessionsRow>>
        ELSE AllGroupRows(day_groups, 0))
    \o << Lit("</tbody></table>"),
          Lit("<p><strong>Total:</strong> "),
          Arg("total", format_duration(total_minutes)),
          Lit(" ("),
          Arg("minutes", Decimal(total_minutes)),
          Lit(" minutes)</p>\n") >>

\* The footnote pushed whatever has_open_sessions says.
footnote_Always(has_open_sessions) == <<Footnote>>

\* write_html_report / write_merged_html_report: the footnote on the
\* asterisks, pushed if has_open_sessions.
footnote(has_open_sessions) == IF has_open_sessions THEN <<Footnote>> ELSE <<>>

\* write_html_report: the document of one worker.
write_html_report(worker_name, month, day_groups, total_minutes, has_open_sessions) ==
    << Lit("<!DOCTYPE html><html><head><meta charset=\"utf-8\"><title>Timesheet "),
       Arg("title", worker_name),
       Lit(" "),
       Arg("month", month),
       Lit("</title><style>...</style></head><body>\n"),
       Lit("<h1>"),
       Arg("h1", escape_html(worker_name)),
       Lit("</h1><h2>Month: "),
       Arg("month", month),
       Lit("</h2>\n") >>
    \o TableAndTotal(day_groups, total_minutes)
    \o footnote(has_open_sessions)
    \o <<Lit("</body></html>")>>

\* The rows of one day-group in the CSV file.
CsvGroupRows(group) ==
    [idx \in 1..Len(group.rows) |->
        [kind      |-> "csv_row",
         date_text |-> IF idx = 1 THEN FormatMD(group.date) ELSE <<>>,
         day_text  |-> IF idx = 1 THEN weekday_name_es(WeekdayOf(group.date)) ELSE "",
         clock_in  |-> group.rows[idx].clock_in,
         clock_out |-> group.rows[idx].clock_out,
         duration_minutes |-> Decimal(group.rows[idx].duration_minutes),
         duration_label   |-> group.rows[idx].duration_label]]

RECURSIVE AllCsvRows(_)
AllCsvRows(day_groups) ==
    IF day_groups = <<>> THEN <<>>
    ELSE CsvGroupRows(Head(day_groups)) \o AllCsvRows(Tail(day_groups))

\* write_csv_report: the CSV file of one worker.
write_csv_report(worker_name, month, day_groups, total_minutes) ==
    << Lit("Worker,"), Arg("worker", worker_name), Lit("\n"),
       Lit("Month,"), Arg("month", month), Lit("\n"),
       Lit("Date,Day,Clock In,Clock Out,Duration Minutes,Duration HH:MM\n") >>
    \o (IF day_groups = <<>> THEN <<CsvNoSessionsRow>>
        ELSE AllCsvRows(day_groups))
    \o << Lit("Total,,,"), Arg("minutes", Decimal(total_minutes)), Lit(","),
          Arg("total", format_duration(total_minutes)), Lit("\n") >>

\* The marker pushed before every worker, the first one too.
page_break_BeforeEveryWorker(worker_idx) == <<PageBreak>>

\* write_merged_html_report: the page-break marker, pushed before every
\* worker but the first (worker_idx counted from 0).
page_break(worker_idx) == IF worker_idx > 0 THEN <<PageBreak>> ELSE <<>>

RECURSIVE MergedSections(_, _)
\* write_merged_html_report, the loop from worker_idx on.
MergedSections(worker_data, worker_idx) ==
    IF worker_idx >= Len(worker_data) THEN <<>>
    ELSE LET worker == worker_data[worker_idx + 1]
         IN  page_break(worker_idx)
             \o << Lit("<h2>"), Arg("h2", escape_html(worker.worker_name)), Lit("</h2>\n") >>
             \o TableAndTotal(worker.day_groups, worker.total_minutes)
             \o footnote(worker.has_open_sessions)
             \o MergedSections(worker_data, worker_idx + 1)

\* write_merged_html_report: the document of all workers.
write_merged_html_report(month, worker_data) ==
    << Lit("<!DOCTYPE html><html><head><meta charset=\"utf-8\"><title>All Workers Timesheet "),
       Arg("month", month),
       Lit("</title><style>...</style></head><body>\n"),
       Lit("<h1>All Workers Timesheet</h1><h2>Month: "),
       Arg("month", month),
       Lit("</h2>\n") >>
    \o MergedSections(worker_data, 0)
    \o <<Lit("</body></html>")>>

\* output_root.join(format!("{}_{}.{ext}", month_key, sanitized_name)): the
\* file name inside the output directory.
html_path(month, sanitized_name) ==
    month \o <<"_">> \o sanitized_name \o <<".", "h", "t", "m", "l">>
csv_path(month, sanitized_name) ==
    month \o <<"_">> \o sanitized_name \o <<".", "c", "s", "v">>
merged_html_path(month) ==
    month \o <<"_", "a", "l", "l", "_", "w", "o", "r", "k", "e", "r", "s",
               ".", "h", "t", "m", "l">>

\* File::create(path) and write_all: one file written.
FileWrite(path, contents) == [path |-> path, contents |-> contents]

\* The n-th file operation of the run fails (0 is fs::create_dir_all, 2k-1
\* and 2k the HTML and CSV files of the k-th worker, the one after them the
\* merged report).  written = None is File::create failing, Some(len) is
\* write_all failing after len pieces of the document reached the file.
IoFailsAt(io_fail, n) == IsSome(io_fail) /\ Unwrap(io_fail).at = n

\* What the failing operation leaves at the path: nothing new when
\* File::create failed, else the file File::create made (or truncated) with
\* the part of the document that was written.
FailedWrite(path, contents, io_fail) ==
    IF Unwrap(io_fail).written = None THEN <<>>
    ELSE << FileWrite(path,
                      SubSeq(contents, 1,
                             IF Unwrap(Unwrap(io_fail).written) < Len(contents)
                             THEN Unwrap(Unwrap(io_fail).written)
                             ELSE Len(contents))) >>

\* generate_monthly_reports, the two writes of the loop body.
HtmlWrite(worker, month, sanitized_name, rows) ==
    FileWrite(html_path(month, sanitized_name),
              write_html_report(worker.name, month, rows.day_groups,
                                rows.total_minutes, rows.has_open_sessions))
CsvWrite(worker, month, sanitized_name, rows) ==
    FileWrite(csv_path(month, sanitized_name),
              write_csv_report(worker.name, month, rows.day_groups,
                               rows.total_minutes))

\* The loop left with ? on an error: the files written so far by this
\* worker, what the failing write left, and the error.
LoopError(file_writes, partial, error) ==
    [file_writes |-> file_writes, all_worker_data |-> <<>>,
     partial |-> partial, error |-> Some(error)]

\* generate_monthly_reports, the body of the loop for the k-th worker after
\* build_rows has returned rows: the two files of the worker and the entry
\* pushed to all_worker_data, put before what the rest of the loop does; a
\* failing write returns from the function with ?.
WorkerStep(worker, k, month, sanitized_name, rows, io_fail, rest) ==
    IF IoFailsAt(io_fail, 2 * k - 1)
    THEN LoopError(<<>>,
                   FailedWrite(html_path(month, sanitized_name),
                               HtmlWrite(worker, month, sanitized_name, rows).contents,
                               io_fail),
                   "Err(Io)")
    ELSE IF IoFailsAt(io_fail, 2 * k)
    THEN LoopError(<<HtmlWrite(worker, month, sanitized_name, rows)>>,
                   FailedWrite(csv_path(month, sanitized_name),
                               CsvWrite(worker, month, sanitized_name, rows).contents,
                               io_fail),
                   "Err(Io)")
    ELSE [file_writes |->
              << HtmlWrite(worker, month, sanitized_name, rows),
                 CsvWrite(worker, month, sanitized_name, rows) >>
              \o rest.file_writes,
          all_worker_data |->
              << [worker_name       |-> worker.name,
                  day_groups        |-> rows.day_groups,
                  total_minutes     |-> rows.total_minutes,
                  has_open_sessions |-> rows.has_open_sessions] >>
              \o rest.all_worker_data,
          partial |-> rest.partial,
          error |-> rest.error]

RECURSIVE WorkerLoop(_, _, _, _, _, _, _, _)
\* generate_monthly_reports, the loop over the workers from the k-th on.
\* store_fail = Some(k) is the store failing the monthly query of the k-th
\* worker: the ? operator then returns from the function.
WorkerLoop(list, k, table, month_key, selected_date, t, store_fail, io_fail) ==
    IF k > Len(list)
    THEN [file_writes |-> <<>>, all_worker_data |-> <<>>, partial |-> <<>>, error |-> None]
    ELSE IF store_fail = Some(k)
    THEN LoopError(<<>>, <<>>, "Err(Database)")
    ELSE WorkerStep(list[k], k, month_label(month_key), sanitize_filename(list[k].name),
                    build_rows(table, list[k].id, month_key, selected_date, t),
                    io_fail,
                    WorkerLoop(list, k + 1, table, month_key, selected_date, t,
                               store_fail, io_fail))

\* generate_monthly_reports, after the loop over n_workers workers: the
\* error passed on, or the merged report written and Ok.
AfterLoop(loop, month, n_workers, io_fail) ==
    IF IsSome(loop.error)
    THEN [file_writes |-> loop.file_writes, partial |-> loop.partial,
          result |-> Unwrap(loop.error)]
    ELSE IF IoFailsAt(io_fail, 2 * n_workers + 1)
    THEN [file_writes |-> loop.file_writes,
          partial |-> FailedWrite(merged_html_path(month),
                                  write_merged_html_report(month, loop.all_worker_data),
                                  io_fail),
          result |-> "Err(Io)"]
    ELSE [file_writes |->
              loop.file_writes
              \o <<FileWrite(merged_html_path(month),
                             write_merged_html_report(month, loop.all_worker_data))>>,
          partial |-> <<>>,
          result |-> "Ok"]

\* generate_monthly_reports: the files written whole, in order, what a
\* failing write left, and the Result.  io_fail at 0 is fs::create_dir_all
\* failing, store_fail = Some(0) is db::get_workers failing.
generate_monthly_reports(table, month_key, selected_date, t, store_fail, io_fail) ==
    IF IoFailsAt(io_fail, 0)
    THEN [file_writes |-> <<>>, partial |-> <<>>, result |-> "Err(Io)"]
    ELSE IF store_fail = Some(0)
    THEN [file_writes |-> <<>>, partial |-> <<>>, result |-> "Err(Database)"]
    ELSE AfterLoop(WorkerLoop(get_workers, 1, table, month_key, selected_date, t,
                              store_fail, io_fail),
                   month_label(month_key), Len(get_workers), io_fail)

RECURSIVE FilesAfter(_, _)
\* The directory after the given writes: File::create truncates, so a path
\* holds what was written to it last.
FilesAfter(dir, file_writes) ==
    IF file_writes = <<>> THEN dir
    ELSE LET w == Head(file_writes)
         IN  FilesAfter([p \in DOMAIN dir \cup {w.path} |->
                            IF p = w.path THEN w.contents ELSE dir[p]],
                        Tail(file_writes))

\* -------------------------------------------------------------- live view

\* refresh_workers, the closure of worker_sort_list: one worker with its
\* in-progress flag and its sort instant, from today's entries.
SortEntry(table, w, today) ==
    LET entries == get_daily_timesheet_entries(table, w.id, today)
        open    == {i \in 1..Len(entries) : entries[i].clock_out = None}
        outs    == {Unwrap(entries[i].clock_out) :
                       i \in {j \in 1..Len(entries) : IsSome(entries[j].clock_out)}}
        is_in_progress == open # {}
        sort_time ==
            IF is_in_progress
            THEN Some(entries[CHOOSE i \in open : \A j \in open : i <= j].clock_in)
            ELSE IF outs = {} THEN None
            ELSE Some(CHOOSE t \in outs : \A u \in outs : u <= t)
    IN  [worker |-> w, in_progress |-> is_in_progress, time |-> sort_time]

\* The sort key without Reverse on the instant: oldest first.
KeyLess_OldestFirst(a, b) ==
    LET ta == IF IsSome(a.time) THEN Unwrap(a.time) ELSE 0
        tb == IF IsSome(b.time) THEN Unwrap(b.time) ELSE 0
    IN  \/ a.in_progress /\ ~b.in_progress
        \/ a.in_progress = b.in_progress /\ ta < tb

\* The sort key (Reverse(in_progress), Reverse(time or epoch)): a sorts
\* strictly before b.
KeyLess(a, b) ==
    LET ta == IF IsSome(a.time) THEN Unwrap(a.time) ELSE 0
        tb == IF IsSome(b.time) THEN Unwrap(b.time) ELSE 0
    IN  \/ a.in_progress /\ ~b.in_progress
        \/ a.in_progress = b.in_progress /\ ta > tb

RECURSIVE InsertByKey(_, _)
\* x placed after every element that does not sort strictly after it.
InsertByKey(sorted, x) ==
    IF sorted = <<>> THEN <<x>>
    ELSE IF KeyLess(x, Head(sorted)) THEN <<x>> \o sorted
    ELSE <<Head(sorted)>> \o InsertByKey(Tail(sorted), x)

RECURSIVE SortByKey(_)
\* sort_by_key: a stable sort.
SortByKey(list) ==
    IF list = <<>> THEN <<>>
    ELSE InsertByKey(SortByKey(SubSeq(list, 1, Len(list) - 1)), list[Len(list)])

\* The partition closure asking the store for any open row of the worker,
\* whatever its day.
IsInProgress_AnyDay(table, w, today) == IsSome(get_current_status(table, w.id))

\* refresh_workers, the partition closure: today's entries hold an open one.
IsInProgress(table, w, today) ==
    LET entries == get_daily_timesheet_entries(table, w.id, today)
    IN  \E i \in 1..Len(entries) : entries[i].clock_out = None

\* The text shown in place of the clock-out of an open session.
EnProgreso == <<"E", "n", " ", "P", "r", "o", "g", "r", "e", "s", "o">>

\* The window taking the first two entries instead of the last two.
entries_to_show_OldestTwo(entries) ==
    IF Len(entries) > 2 THEN SubSeq(entries, 1, 2) ELSE entries

\* The window with the newest entry put first.
entries_to_show_NewestFirst(entries) ==
    IF Len(entries) >= 2 THEN <<entries[Len(entries)], entries[Len(entries) - 1]>>
    ELSE entries

\* refresh_workers, entries_to_show: the last two of the worker's entries of
\* today, or all of them when there are at most two.
entries_to_show(entries) ==
    IF Len(entries) > 2 THEN SubSeq(entries, Len(entries) - 1, Len(entries))
    ELSE entries

\* The rows of one worker, every one of them tagged with show_name.
times_EveryRowNamed(shown) ==
    IF shown # <<>>
    THEN [index \in 1..Len(shown) |->
            LET entry == shown[index]
            IN  [checked_in_time  |-> FormatHMS(LocalTimeOfDay(entry.clock_in)),
                 checked_out_time |->
                     IF IsSome(entry.clock_out)
                     THEN FormatHMS(LocalTimeOfDay(Unwrap(entry.clock_out)))
                     ELSE EnProgreso,
                 color     |-> IF IsSome(entry.clock_out) THEN "transparent" ELSE "orange",
                 show_name |-> TRUE,
                 entry_id  |-> entry.id]]
    ELSE << [checked_in_time |-> <<>>, checked_out_time |-> <<>>,
             color |-> "gray", show_name |-> TRUE, entry_id |-> 0] >>

\* refresh_workers, times: the TimesheetDisplay rows of one worker, one per
\* entry shown (index counted from 1 here, from 0 in the code), or the one
\* placeholder row.  entry_id is not a field of TimesheetDisplay: it records
\* which entry the row was made from.
times(shown) ==
    IF shown # <<>>
    THEN [index \in 1..Len(shown) |->
            LET entry == shown[index]
            IN  [checked_in_time  |-> FormatHMS(LocalTimeOfDay(entry.clock_in)),
                 checked_out_time |->
                     IF IsSome(entry.clock_out)
                     THEN FormatHMS(LocalTimeOfDay(Unwrap(entry.clock_out)))
                     ELSE EnProgreso,
                 color     |-> IF IsSome(entry.clock_out) THEN "transparent" ELSE "orange",
                 show_name |-> index = 1,
                 entry_id  |-> entry.id]]
    ELSE << [checked_in_time |-> <<>>, checked_out_time |-> <<>>,
             color |-> "gray", show_name |-> TRUE, entry_id |-> 0] >>

\* The rows of one worker read from the table as it was before its newest
\* row was inserted: a snapshot older than the one the sort and the
\* partition read.
DataWorker_EarlierSnapshot(table, worker, today) ==
    [worker |-> worker,
     times  |-> times(entries_to_show(
                    get_daily_timesheet_entries(SubSeq(table, 1, Len(table) - 1),
                                                worker.id, today)))]

\* refresh_workers, in_progress_workers_data / not_in_progress_workers_data:
\* one worker with the rows to display.
DataWorker(table, worker, today) ==
    [worker |-> worker,
     times  |-> times(entries_to_show(get_daily_timesheet_entries(table, worker.id, today)))]

\* The WorkerWithTimes items of one DataWorker.
WorkerWithTimes(w) ==
    [k \in 1..Len(w.times) |->
        [name             |-> IF w.times[k].show_name THEN w.worker.name ELSE <<>>,
         checked_in_time  |-> w.times[k].checked_in_time,
         checked_out_time |-> w.times[k].checked_out_time,
         color            |-> w.times[k].color,
         barcode          |-> w.worker.barcode,
         show_name        |-> w.times[k].show_name,
         entry_id         |-> w.times[k].entry_id]]

RECURSIVE worker_items(_, _, _)
\* refresh_workers, in_progress_worker_items / not_in_progress_worker_items:
\* the flat_map of a list of workers to their items.
worker_items(table, list, today) ==
    IF list = <<>> THEN <<>>
    ELSE WorkerWithTimes(DataWorker(table, Head(list), today))
            \o worker_items(table, Tail(list), today)

\* refresh_workers, worker_sort_list before it is sorted: every listed
\* worker with its in-progress flag and sort instant.
worker_sort_list(table, listed, today) ==
    [i \in 1..Len(listed) |-> SortEntry(table, listed[i], today)]

\* refresh_workers, sorted_workers: the workers of the sorted list.
sorted_workers(sorted_list) ==
    [i \in 1..Len(sorted_list) |-> sorted_list[i].worker]

\* refresh_workers, from the partition on: the two worker lists and the
\* items shown for them.
PartitionAndItems(table, in_progress, not_in_progress, today) ==
    [in_progress           |-> in_progress,
     not_in_progress       |-> not_in_progress,
     in_progress_items     |-> worker_items(table, in_progress, today),
     not_in_progress_items |-> worker_items(table, not_in_progress, today),
     today                 |-> today]

\* refresh_workers, from the sorted workers on.
ViewOfSorted(table, sorted, today) ==
    LET Open(w)   == IsInProgress(table, w, today)
        Closed(w) == ~IsInProgress(table, w, today)
    IN  PartitionAndItems(table, SelectSeq(sorted, Open), SelectSeq(sorted, Closed), today)

\* refresh_workers: the two worker lists and the items shown for them, from
\* the table at instant t.
refresh_workers(table, t) ==
    ViewOfSorted(table,
                 sorted_workers(SortByKey(worker_sort_list(table, get_workers, UtcDate(t)))),
                 UtcDate(t))

\* ui.set_in_progress_workers / ui.set_not_in_progress_workers: the view
\* variables take what the refresh computed.
SetView(v) ==
    /\ in_progress_workers' = v.in_progress
    /\ not_in_progress_workers' = v.not_in_progress
    /\ view_today' = v.today
    /\ in_progress_worker_items' = v.in_progress_items
    /\ not_in_progress_worker_items' = v.not_in_progress_items

\* The view variables after a refresh of the given table at instant t.
Refreshed(table, t) == SetView(refresh_workers(table, t))

\* ------------------------------------------------------------ scan handler

\* A scanner's raw readings: two workers' codes, one of them also with the
\* line ending a scanner appends, and a code no worker carries.
RawBarcodes == { <<"1">>, <<" ", "1", "\n">>, <<"2">>, <<"9">> }

\* The test without the comparison of the barcodes: any reading within the
\* two seconds is dropped.
ScanIgnored_AnyBarcode(trimmed_barcode, t) ==
    /\ IsSome(last_scan_time)
    /\ IsSome(last_scan_barcode)
    /\ t - Unwrap(last_scan_time) < 2

\* on_barcode_scanned, the debounce test: same code as the last accepted
\* scan, less than two seconds after it.
ScanIgnored(trimmed_barcode, t) ==
    /\ IsSome(last_scan_time)
    /\ IsSome(last_scan_barcode)
    /\ t - Unwrap(last_scan_time) < 2
    /\ Unwrap(last_scan_barcode) = trimmed_barcode

\* on_barcode_scanned: the whole handler for one raw reading.  store_ok is
\* whether the store accepts the clock_in / clock_out statement.
Scan(raw, store_ok) ==
    LET trimmed_barcode == normalize(raw)
        worker_result   == get_worker_by_barcode(trimmed_barcode)
    IN  IF ScanIgnored(trimmed_barcode, now)
        THEN UNCHANGED vars
        ELSE /\ last_scan_time' = Some(now)
             /\ last_scan_barcode' = Some(trimmed_barcode)
             /\ UNCHANGED <<workers, now, report_vars, file_vars, fn_vars>>
             /\ IF IsSome(worker_result) /\ store_ok
                THEN LET worker == Unwrap(worker_result)
                         status == get_current_status(timesheets, worker.id)
                     IN  /\ IsSome(status) \/ Len(timesheets) < MaxEvents
                         /\ timesheets' =
                               IF IsSome(status)
                               THEN clock_out(timesheets, worker.id, now)
                               ELSE clock_in(timesheets, worker.id, now)
                         /\ Refreshed(timesheets', now)
                ELSE UNCHANGED <<timesheets, view_vars>>

\* timers.rs: the periodic refresh of the live view.
TimerRefresh ==
    /\ Refreshed(timesheets, now)
    /\ UNCHANGED <<workers, timesheets, now, scan_vars, report_vars, file_vars, fn_vars>>

\* The wall clock advances by one second.
StartTime == Instant(2024, 4, 6, 23, 59, 58)
Tick ==
    /\ now < StartTime + MaxClock
    /\ now' = now + 1
    /\ UNCHANGED <<workers, timesheets, scan_vars, view_vars, report_vars, file_vars, fn_vars>>

\* The variables no report has touched yet: no file written, no call made.
NothingWritten ==
    /\ files = <<>>
    /\ writes = <<>>
    /\ report_result = None
    /\ fn_call = None
    /\ fn_result = None

Init ==
    /\ workers = WorkersTable
    /\ timesheets = <<>>
    /\ now = StartTime
    /\ last_scan_time = None
    /\ last_scan_barcode = None
    /\ NothingWritten
    /\ in_progress_workers = refresh_workers(<<>>, StartTime).in_progress
    /\ not_in_progress_workers = refresh_workers(<<>>, StartTime).not_in_progress
    /\ view_today = refresh_workers(<<>>, StartTime).today
    /\ in_progress_worker_items = refresh_workers(<<>>, StartTime).in_progress_items
    /\ not_in_progress_worker_items = refresh_workers(<<>>, StartTime).not_in_progress_items
    /\ report_call = None
    /\ worker_rows = None
    /\ worker_rows_again = None

Next ==
    \/ Tick
    \/ \E raw \in RawBarcodes, store_ok \in BOOLEAN : Scan(raw, store_ok)
    \/ TimerRefresh

Spec == Init /\ [][Next]_vars

\* ------------------------------------------------- aggregation, on its own

\* Clock-in instants of the sampled entries:
\*   2024-04-07 02:30:00Z, local Sat 2024-04-06 23:30:00 (UTC-3);
\*   2024-04-07 03:10:00Z, local Sat 2024-04-06 23:10:00 (UTC-4), the hour
\*     that local clocks repeat;
\*   2024-04-03 12:00:30Z, local Wed 2024-04-03 09:00:30;
\*   2024-03-05 11:00:00Z, local Tue 2024-03-05 08:00:00.
SampleClockIns ==
    { Instant(2024, 4, 7, 2, 30, 0), Instant(2024, 4, 7, 3, 10, 0),
      Instant(2024, 4, 3, 12, 0, 30), Instant(2024, 3, 5, 11, 0, 0) }

\* A session is open, or closed 30 minutes 30 seconds after its clock-in,
\* or (bad data) closed 10 minutes before it.
SampleClockOuts(t) == { None, Some(t + 1830), Some(t - 600) }

\* What Utc::now() reads while a report is built: after every clock-in.
SampleNows == { Instant(2024, 4, 7, 4, 0, 20), Instant(2024, 4, 30, 23, 0, 0) }

SampleMonths == { <<2024, 3>>, <<2024, 4>> }
\* selected_date, as days after the first of the month: the first, a day
\* inside the month, the 31st day, and a day past the cap.
SampleSelectedOffsets == {0, 5, 30, 35}

\* The tables of n rows, ids 1..n, all of worker 1, as the scan handler
\* leaves them: rows in the order of their clock-ins, a session closed
\* before the next one starts, and only the newest row possibly open.
SampleTables(n) ==
    { table \in [1..n -> [id : 1..n, worker_id : {1}, clock_in : SampleClockIns,
                          clock_out : {None} \cup {Some(t + d) : t \in SampleClockIns,
                                                                d \in {1830, -600}}]] :
        /\ \A i \in 1..n :
              /\ table[i].id = i
              /\ table[i].clock_out \in SampleClockOuts(table[i].clock_in)
        /\ \A i \in 1..(n - 1) :
              /\ IsSome(table[i].clock_out)
              /\ table[i].clock_in <= table[i + 1].clock_in
              /\ Unwrap(table[i].clock_out) <= table[i + 1].clock_in }

InitRows ==
    /\ workers = WorkersTable
    /\ \E n \in 0..MaxEntries : timesheets \in SampleTables(n)
    /\ NothingWritten
    /\ now \in SampleNows
    /\ last_scan_time = None
    /\ last_scan_barcode = None
    /\ in_progress_workers = <<>>
    /\ not_in_progress_workers = <<>>
    /\ view_today = UtcDate(now)
    /\ in_progress_worker_items = <<>>
    /\ not_in_progress_worker_items = <<>>
    /\ report_call = None
    /\ worker_rows = None
    /\ worker_rows_again = None

\* generate_monthly_reports, one iteration of its loop up to build_rows:
\* the first call of a behaviour.
BuildRows(worker_id, month_key, selected_date) ==
    /\ worker_rows = None
    /\ report_call' = Some([worker_id |-> worker_id, month_key |-> month_key,
                            selected_date |-> selected_date, now |-> now])
    /\ worker_rows' = Some(build_rows(timesheets, worker_id, month_key, selected_date, now))
    /\ UNCHANGED <<workers, timesheets, now, scan_vars, view_vars, worker_rows_again,
                   file_vars, fn_vars>>

\* The wall clock passes a minute boundary after the first call: 45 seconds
\* go by.
ClockAdvances ==
    /\ worker_rows # None
    /\ worker_rows_again = None
    /\ now = Unwrap(report_call).now
    /\ now' = now + 45
    /\ UNCHANGED <<workers, timesheets, scan_vars, view_vars, report_vars, file_vars, fn_vars>>

\* build_rows called once more with what the first call was given, the
\* clock reading what it reads by then.
BuildRowsAgain ==
    /\ worker_rows # None
    /\ worker_rows_again = None
    /\ worker_rows_again' =
           Some([now  |-> now,
                 rows |-> build_rows(timesheets, Unwrap(report_call).worker_id,
                                     Unwrap(report_call).month_key,
                                     Unwrap(report_call).selected_date, now)])
    /\ UNCHANGED <<workers, timesheets, now, scan_vars, view_vars, report_call, worker_rows,
                   file_vars, fn_vars>>

NextRows ==
    \/ \E month_key \in SampleMonths, off \in SampleSelectedOffsets :
          BuildRows(1, month_key, days_from_civil(month_key[1], month_key[2], 1) + off)
    \/ ClockAdvances
    \/ BuildRowsAgain

SpecRows == InitRows /\ [][NextRows]_vars

\* ------------------------------------------------ report generation, whole

\* Worker names: a plain one, two that differ only in a character that is
\* not ASCII-alphanumeric, and one made of the five characters HTML needs
\* escaped.
SampleNames ==
    { <<"A", "n", "a">>, <<"A", " ", "B">>, <<"A", "-", "B">>,
      <<"<", "&", ">", "\"", "'">> }

\* The workers tables of n active rows, ids 1..n, names drawn freely (the
\* schema lets two workers carry the same name).
SampleWorkers(n) ==
    { [i \in 1..n |-> [id |-> i, name |-> names[i], barcode |-> Decimal(i), active |-> TRUE]] :
        names \in [1..n -> SampleNames] }

\* A session closed after 30 minutes 30 seconds on 2024-04-03, and one
\* still open since 2024-04-07 02:30:00Z (local Sat 2024-04-06 23:30:00).
ClosedEntry(id, worker_id) ==
    [id |-> id, worker_id |-> worker_id,
     clock_in |-> Instant(2024, 4, 3, 12, 0, 30),
     clock_out |-> Some(Instant(2024, 4, 3, 12, 0, 30) + 1830)]
OpenEntry(id, worker_id) ==
    [id |-> id, worker_id |-> worker_id,
     clock_in |-> Instant(2024, 4, 7, 2, 30, 0), clock_out |-> None]

\* The timesheets tables drawn for n workers.
ReportTables(n) ==
    {<<>>}
    \cup {<<ClosedEntry(1, a)>> : a \in 1..n}
    \cup {<<OpenEntry(1, a)>> : a \in 1..n}
    \cup {<<ClosedEntry(1, a), OpenEntry(2, b)>> : a \in 1..n, b \in 1..n}

\* The dates selected in the window when the report is asked for.
SampleSelectedDates == { days_from_civil(2024, 4, 2), days_from_civil(2024, 4, 7) }

InitReports ==
    /\ \E n \in 0..MaxWorkers :
          /\ workers \in SampleWorkers(n)
          /\ timesheets \in ReportTables(n)
    /\ now = Instant(2024, 4, 7, 4, 0, 20)
    /\ last_scan_time = None
    /\ last_scan_barcode = None
    /\ in_progress_workers = <<>>
    /\ not_in_progress_workers = <<>>
    /\ view_today = UtcDate(now)
    /\ in_progress_worker_items = <<>>
    /\ not_in_progress_worker_items = <<>>
    /\ report_call = None
    /\ worker_rows = None
    /\ worker_rows_again = None
    /\ NothingWritten

\* What a run of generate_monthly_reports leaves: the files it wrote and
\* its Result, which on_generate_report turns into a message.  writes keeps
\* the files written whole; the directory also holds what a failing write
\* left.
ReportDone(run) ==
    /\ writes' = writes \o run.file_writes
    /\ files' = FilesAfter(files, run.file_writes \o run.partial)
    /\ report_result' = Some(run.result)

\* on_generate_report: generate_monthly_reports for the month of the
\* selected date, into a directory that holds no file yet.
GenerateReport(selected_date, store_fail, io_fail) ==
    /\ report_result = None
    /\ report_call' = Some([month_key     |-> <<YearOf(selected_date), MonthOf(selected_date)>>,
                            selected_date |-> selected_date,
                            now           |-> now,
                            store_fail    |-> store_fail,
                            io_fail       |-> io_fail])
    /\ ReportDone(generate_monthly_reports(
                      timesheets, <<YearOf(selected_date), MonthOf(selected_date)>>,
                      selected_date, now, store_fail, io_fail))
    /\ UNCHANGED <<workers, timesheets, now, scan_vars, view_vars, worker_rows,
                 worker_rows_again, fn_vars>>

\* The failures of the file system drawn for a run over n workers: any one
\* of its file operations, File::create failing or write_all failing after
\* nothing or after the first piece of the document.
SampleWritten == { None, Some(0), Some(1) }
IoFaults(n) == { Some([at |-> at, written |-> written]) :
                    at \in 0..(2 * n + 1), written \in SampleWritten }

\* A run meets at most one failure, of the store or of the file system.
NextReports ==
    \E selected_date \in SampleSelectedDates,
       store_fail \in {None} \cup {Some(k) : k \in 0..Len(get_workers)},
       io_fail \in {None} \cup IoFaults(Len(get_workers)) :
        /\ ~(IsSome(store_fail) /\ IsSome(io_fail))
        /\ GenerateReport(selected_date, store_fail, io_fail)

SpecReports == InitReports /\ [][NextReports]_vars

\* ------------------------------------------- scans, refreshes and a report

\* The program with one worker in the store: scans, timer refreshes, and at
\* some point a report asked for, for the date the clock shows, the store
\* and the file system answering.
InitLog ==
    /\ workers = <<WorkersTable[1]>>
    /\ timesheets = <<>>
    /\ now = StartTime
    /\ last_scan_time = None
    /\ last_scan_barcode = None
    /\ NothingWritten
    /\ in_progress_workers = refresh_workers(<<>>, StartTime).in_progress
    /\ not_in_progress_workers = refresh_workers(<<>>, StartTime).not_in_progress
    /\ view_today = refresh_workers(<<>>, StartTime).today
    /\ in_progress_worker_items = refresh_workers(<<>>, StartTime).in_progress_items
    /\ not_in_progress_worker_items = refresh_workers(<<>>, StartTime).not_in_progress_items
    /\ report_call = None
    /\ worker_rows = None
    /\ worker_rows_again = None

NextLog ==
    \/ Tick
    \/ \E raw \in RawBarcodes, store_ok \in BOOLEAN : Scan(raw, store_ok)
    \/ TimerRefresh
    \/ GenerateReport(UtcDate(now), None, None)

SpecLog == InitLog /\ [][NextLog]_vars

\* --------------------------------------------------- functions, on their own

\* The characters names are drawn from: letters of both cases, a digit, a
\* space, a hyphen and a letter outside ASCII.
NameAlphabet == {"a", "Z", "7", " ", "-", "é"}

RECURSIVE NamesOfLen(_)
NamesOfLen(n) ==
    IF n = 0 THEN {<<>>}
    ELSE {<<c>> \o rest : c \in NameAlphabet, rest \in NamesOfLen(n - 1)}

SampleNamesUpTo(n) == UNION {NamesOfLen(k) : k \in 0..n}

InitFns ==
    /\ workers = WorkersTable
    /\ timesheets = <<>>
    /\ now = StartTime
    /\ last_scan_time = None
    /\ last_scan_barcode = None
    /\ in_progress_workers = <<>>
    /\ not_in_progress_workers = <<>>
    /\ view_today = UtcDate(now)
    /\ in_progress_worker_items = <<>>
    /\ not_in_progress_worker_items = <<>>
    /\ report_call = None
    /\ worker_rows = None
    /\ worker_rows_again = None
    /\ NothingWritten

\* One call of sanitize_filename.
SanitizeFilename(name) ==
    /\ fn_call = None
    /\ fn_call' = Some([fn |-> "sanitize_filename", arg |-> name])
    /\ fn_result' = Some(sanitize_filename(name))
    /\ UNCHANGED <<workers, timesheets, now, scan_vars, view_vars, report_vars, file_vars>>

\* One call of format_duration.
FormatDuration(minutes) ==
    /\ fn_call = None
    /\ fn_call' = Some([fn |-> "format_duration", arg |-> minutes])
    /\ fn_result' = Some(format_duration(minutes))
    /\ UNCHANGED <<workers, timesheets, now, scan_vars, view_vars, report_vars, file_vars>>

NextFns ==
    \/ \E name \in SampleNamesUpTo(MaxNameLen) : SanitizeFilename(name)
    \/ \E minutes \in 0..MaxMinutes : FormatDuration(minutes)

SpecFns == InitFns /\ [][NextFns]_vars

\* ------------------------------------------------------------------ claims

\* The open rows of a worker in the timesheets table.
OpenRowsOf(worker_id) ==
    {i \in 1..Len(timesheets) :
        timesheets[i].worker_id = worker_id /\ timesheets[i].clock_out = None}

\* C1: after any sequence of scans, every worker has at most one attendance
\* event whose clock_out is absent.
C1_AtMostOneOpenSession ==
    \A w \in WorkerIds : Cardinality(OpenRowsOf(w)) <= 1

\* A worker is clocked in for the second time, the first session closed,
\* while the other worker is clocked in too.
C1_Witness ==
    \E w \in WorkerIds, v \in WorkerIds :
        /\ w # v
        /\ Cardinality(OpenRowsOf(w)) = 1
        /\ Cardinality(OpenRowsOf(v)) = 1
        /\ \E i \in 1..Len(timesheets) :
              timesheets[i].worker_id = w /\ IsSome(timesheets[i].clock_out)

\* The ids of a list of workers.
IdsOf(list) == {list[i].id : i \in 1..Len(list)}

Built == IsSome(worker_rows)
Call == Unwrap(report_call)
Groups == Unwrap(worker_rows).day_groups
CallEntries == get_monthly_timesheet_entries(timesheets, Call.worker_id, Call.month_key)
MonthStart == days_from_civil(Call.month_key[1], Call.month_key[2], 1)
\* The last calendar day of the month of the call.
MonthEnd ==
    IF Call.month_key[2] = 12
    THEN days_from_civil(Call.month_key[1] + 1, 1, 1) - 1
    ELSE days_from_civil(Call.month_key[1], Call.month_key[2] + 1, 1) - 1
\* The last day the claims expect to be walked.
LastWalked == IF Call.selected_date < MonthEnd THEN Call.selected_date ELSE MonthEnd

\* The places <<group, row>> of the rows returned.
Places == UNION {{<<g, r>> : r \in 1..Len(Groups[g].rows)} : g \in 1..Len(Groups)}
RowAt(p) == Groups[p[1]].rows[p[2]]
IsPlaceholder(row) ==
    /\ row.clock_in = <<"-", "-", ":", "-", "-", ":", "-", "-">>
    /\ row.clock_out = <<"-", "-", ":", "-", "-", ":", "-", "-">>
    /\ row.duration_minutes = 0
    /\ row.duration_label = <<"0", "0", ":", "0", "0">>
    /\ ~row.is_open
\* The entry a returned row was made from.
EntryOf(row) == CHOOSE e \in {CallEntries[i] : i \in 1..Len(CallEntries)} : e.id = row.entry_id

RECURSIVE SumOver(_, _)
\* The sum of f over a finite set.
SumOver(S, f) ==
    IF S = {} THEN 0
    ELSE LET x == CHOOSE y \in S : TRUE IN f[x] + SumOver(S \ {x}, f)

\* C2: for a selected date on or after the first of the month, the dates of
\* the day-groups are the calendar days from the first of the month to the
\* earlier of the selected date and the last day of the month, each once, in
\* ascending order.
C2_DaysCoverRange ==
    (Built /\ Call.selected_date >= MonthStart) =>
        /\ Len(Groups) = LastWalked - MonthStart + 1
        /\ \A g \in 1..Len(Groups) : Groups[g].date = MonthStart + g - 1

\* April 2024 built with a selected date in May: thirty day-groups.
C2_Witness ==
    /\ Built
    /\ Call.month_key = <<2024, 4>>
    /\ Call.selected_date > MonthEnd
    /\ Len(Groups) = 30
    /\ Groups[30].date = MonthEnd

\* C3: total_minutes equals the sum of duration_minutes over the rows that
\* appear in the returned day-groups.
C3_TotalIsSumOfShownRows ==
    Built =>
        Unwrap(worker_rows).total_minutes
            = SumOver(Places, [p \in Places |-> RowAt(p).duration_minutes])

\* C4: has_open_sessions is true if and only if a row with is_open = true
\* appears in the returned day-groups.
C4_OpenFlagIffOpenRowShown ==
    Built =>
        (Unwrap(worker_rows).has_open_sessions <=> \E p \in Places : RowAt(p).is_open)

\* C5: every entry given to build_rows whose local clock-in date lies in the
\* walked range appears as exactly one row, in the day-group of that date.
C5_EntryShownOnceOnLocalDay ==
    Built =>
        \A i \in 1..Len(CallEntries) :
            LET e == CallEntries[i]
                day == LocalDate(e.clock_in)
                at == {p \in Places : RowAt(p).entry_id = e.id}
            IN  (MonthStart <= day /\ day <= LastWalked) =>
                    /\ Cardinality(at) = 1
                    /\ \A p \in at :
                          /\ Groups[p[1]].date = day
                          /\ RowAt(p) = to_report_row(e, Call.now)

\* Two entries are shown, one of them on a local day that is not its UTC day.
C5_Witness ==
    /\ Built
    /\ Cardinality({p \in Places : RowAt(p).entry_id # 0}) = 2
    /\ \E p \in Places :
          /\ RowAt(p).entry_id # 0
          /\ UtcDate(EntryOf(RowAt(p)).clock_in) # Groups[p[1]].date

\* C6: in every day-group the rows are ordered by clock-in instant: of two
\* rows of one day, the one whose entry clocked in earlier comes first.
C6_RowsOrderedByClockInInstant ==
    Built =>
        \A p \in Places, q \in Places :
            (/\ p[1] = q[1]
             /\ p[2] < q[2]
             /\ RowAt(p).entry_id # 0
             /\ RowAt(q).entry_id # 0)
                => EntryOf(RowAt(p)).clock_in <= EntryOf(RowAt(q)).clock_in

\* C7: a row made from an entry without clock-out has is_open = true, a
\* clock-out label ending in '*' and (now - clock_in) in whole minutes as
\* its duration; a row made from an entry with a clock-out has
\* is_open = false and no '*' in its label.
C7_OpenRowMarked ==
    Built =>
        \A p \in Places :
            LET row == RowAt(p) IN
            row.entry_id # 0 =>
                IF EntryOf(row).clock_out = None
                THEN /\ row.is_open
                     /\ row.clock_out[Len(row.clock_out)] = "*"
                     /\ row.duration_minutes = (Call.now - EntryOf(row).clock_in) \div 60
                ELSE /\ ~row.is_open
                     /\ \A k \in 1..Len(row.clock_out) : row.clock_out[k] # "*"

\* An open session of more than an hour and a closed session are shown.
C7_Witness ==
    /\ Built
    /\ \E p \in Places :
          /\ RowAt(p).is_open
          /\ RowAt(p).duration_minutes > 60
          /\ RowAt(p).clock_out[Len(RowAt(p).clock_out)] = "*"
    /\ \E p \in Places : RowAt(p).entry_id # 0 /\ ~RowAt(p).is_open

\* C8: a walked day without entries yields a day-group of exactly one row,
\* the placeholder; a day with entries holds no placeholder row.
C8_PlaceholderOnEmptyDays ==
    Built =>
        \A g \in 1..Len(Groups) :
            LET onDay == {i \in 1..Len(CallEntries) :
                             LocalDate(CallEntries[i].clock_in) = Groups[g].date}
                rows == Groups[g].rows
            IN  IF onDay = {}
                THEN Len(rows) = 1 /\ IsPlaceholder(rows[1]) /\ rows[1].entry_id = 0
                ELSE /\ Len(rows) = Cardinality(onDay)
                     /\ \A r \in 1..Len(rows) :
                           rows[r].entry_id # 0 /\ rows[r].clock_in[1] # "-"

\* A day with two entries next to a day with none.
C8_Witness ==
    /\ Built
    /\ \E g \in 1..Len(Groups) : Len(Groups[g].rows) = 2
    /\ \E g \in 1..Len(Groups) : IsPlaceholder(Groups[g].rows[1])

\* Whole minutes from clock-in to clock-out (or to now), nothing for an
\* entry whose end precedes its start.
CleanMinutes(e) ==
    LET end == IF e.clock_out = None THEN Call.now ELSE Unwrap(e.clock_out)
    IN  IF end < e.clock_in THEN 0 ELSE (end - e.clock_in) \div 60
EntryIndexes == 1..Len(CallEntries)

\* C9: an entry whose clock-out precedes its clock-in yields a row with
\* duration_minutes = 0 that still appears in its day-group and adds nothing
\* to total_minutes; duration_minutes >= 0 for every row and
\* total_minutes >= 0.
C9_NegativeDurationClamped ==
    Built =>
        /\ \A p \in Places : RowAt(p).duration_minutes >= 0
        /\ Unwrap(worker_rows).total_minutes >= 0
        /\ Unwrap(worker_rows).total_minutes
              = SumOver(EntryIndexes, [i \in EntryIndexes |-> CleanMinutes(CallEntries[i])])
        /\ \A i \in EntryIndexes :
              LET e == CallEntries[i]
                  day == LocalDate(e.clock_in)
              IN  (/\ IsSome(e.clock_out)
                   /\ Unwrap(e.clock_out) < e.clock_in
                   /\ MonthStart <= day
                   /\ day <= LastWalked)
                      => \E p \in Places :
                            /\ RowAt(p).entry_id = e.id
                            /\ Groups[p[1]].date = day
                            /\ RowAt(p).duration_minutes = 0

\* An entry closed before its clock-in is shown with 00:00 beside a sound
\* entry that makes up the whole total.
C9_Witness ==
    /\ Built
    /\ Unwrap(worker_rows).total_minutes = 30
    /\ \E p \in Places :
          /\ RowAt(p).entry_id # 0
          /\ IsSome(EntryOf(RowAt(p)).clock_out)
          /\ Unwrap(EntryOf(RowAt(p)).clock_out) < EntryOf(RowAt(p)).clock_in
          /\ RowAt(p).duration_minutes = 0
          /\ RowAt(p).duration_label = <<"0", "0", ":", "0", "0">>

\* ------------------------------------------------------ claims, live view

\* The second call of build_rows of the behaviour.
BuiltAgain == IsSome(worker_rows_again)
Again == Unwrap(worker_rows_again)

\* Every open row of the day-groups has its duration counted up to t.
OpenRowsCountedTo(day_groups, t) ==
    \A g \in 1..Len(day_groups) :
        \A r \in 1..Len(day_groups[g].rows) :
            LET row == day_groups[g].rows[r]
            IN  row.is_open =>
                    row.duration_minutes
                        = (IF num_minutes(t - EntryOf(row).clock_in) < 0 THEN 0
                           ELSE num_minutes(t - EntryOf(row).clock_in))

C23_SameNowSameRows ==
    /\ Built => OpenRowsCountedTo(Groups, Call.now)
    /\ BuiltAgain =>
          /\ OpenRowsCountedTo(Again.rows.day_groups, Again.now)
          /\ Again.now = Call.now => Again.rows = Unwrap(worker_rows)

C23_LaterNowOtherRows ==
    /\ Built /\ BuiltAgain
    /\ Again.now > Call.now
    /\ Again.rows.total_minutes > Unwrap(worker_rows).total_minutes

\* The entries of the day of the last refresh that the store holds for a
\* worker, oldest first.
TodayEntries(w) == get_daily_timesheet_entries(timesheets, w.id, view_today)

\* The clock-in instant of the worker's open session of today.
OpenClockIn(w) ==
    LET e == TodayEntries(w)
        open == {i \in 1..Len(e) : e[i].clock_out = None}
    IN  e[CHOOSE i \in open : TRUE].clock_in

\* The worker's latest clock-out among today's events, the epoch if none.
LastClockOut(w) ==
    LET e == TodayEntries(w)
        closed == {i \in 1..Len(e) : IsSome(e[i].clock_out)}
    IN  IF closed = {} THEN 0
        ELSE Unwrap(e[CHOOSE i \in closed :
                        \A j \in closed : Unwrap(e[j].clock_out) <= Unwrap(e[i].clock_out)].clock_out)

\* The place of a worker in the sequence the store lists.
StorePos(w) == CHOOSE i \in 1..Len(get_workers) : get_workers[i].id = w.id

\* A list is in descending order of Key, equal keys in store order.
OrderedBy(list, Key(_)) ==
    \A i \in 1..Len(list), j \in 1..Len(list) :
        i < j => \/ Key(list[i]) > Key(list[j])
                 \/ /\ Key(list[i]) = Key(list[j])
                    /\ StorePos(list[i]) < StorePos(list[j])

BlockOf(items, w) ==
    LET Mine(item) == item.barcode = w.barcode
    IN  SelectSeq(items, Mine)

\* The items of worker w are the last min(2, n) of the n events of today, in
\* store order, or the one placeholder row when n = 0.
WindowShown(items, w) ==
    LET e     == TodayEntries(w)
        n     == Len(e)
        block == BlockOf(items, w)
    IN  IF n = 0
        THEN /\ Len(block) = 1
             /\ block[1].entry_id = 0
             /\ block[1].checked_in_time = <<>>
             /\ block[1].checked_out_time = <<>>
        ELSE /\ Len(block) = (IF n < 2 THEN n ELSE 2)
             /\ \A k \in 1..Len(block) :
                   LET entry == e[n - Len(block) + k]
                   IN  /\ block[k].entry_id = entry.id
                       /\ block[k].checked_in_time = FormatHMS(LocalTimeOfDay(entry.clock_in))
                       /\ block[k].checked_out_time =
                             (IF IsSome(entry.clock_out)
                              THEN FormatHMS(LocalTimeOfDay(Unwrap(entry.clock_out)))
                              ELSE EnProgreso)

C12_WindowInEveryState ==
    /\ \A i \in 1..Len(in_progress_workers) :
          WindowShown(in_progress_worker_items, in_progress_workers[i])
    /\ \A i \in 1..Len(not_in_progress_workers) :
          WindowShown(not_in_progress_worker_items, not_in_progress_workers[i])

WorkerOfItem(item) ==
    get_workers[CHOOSE i \in 1..Len(get_workers) : get_workers[i].barcode = item.barcode]

\* In a list of items, a row carries show_name exactly when it is the first
\* row of the list or follows a row of another worker, and it carries the
\* worker's name exactly when it carries show_name.
NamedOncePerBlock(items) ==
    \A k \in 1..Len(items) :
        /\ items[k].show_name <=> (k = 1 \/ items[k - 1].barcode # items[k].barcode)
        /\ items[k].name = (IF items[k].show_name THEN WorkerOfItem(items[k]).name ELSE <<>>)

\* C13: in each live-view list every worker's block of displayed rows has
\* show_name = true on its first row and false on every other row, so the
\* name is emitted once per worker and each name-bearing row starts a new
\* worker's block.
C13_NameOnFirstRowOnly ==
    /\ NamedOncePerBlock(in_progress_worker_items)
    /\ NamedOncePerBlock(not_in_progress_worker_items)
    /\ \A i \in 1..Len(get_workers) :
          LET block == BlockOf(in_progress_worker_items \o not_in_progress_worker_items,
                               get_workers[i])
          IN  Cardinality({k \in 1..Len(block) : block[k].show_name}) = 1

\* A block of two rows, the second without the name, followed by the block
\* of the other worker.
C13_Witness ==
    \E items \in {in_progress_worker_items, not_in_progress_worker_items} :
        /\ Len(items) = 3
        /\ items[1].show_name /\ items[1].name # <<>>
        /\ ~items[2].show_name /\ items[2].name = <<>>
        /\ items[2].barcode = items[1].barcode
        /\ items[3].show_name /\ items[3].barcode # items[1].barcode

\* ------------------------------------------------ claims, weekend flag

\* 2024-02-25 was a Sunday: the days a whole number of weeks after it are
\* Sundays, the days before those Saturdays.
ASunday == days_from_civil(2024, 2, 25)
IsSunday(date) == (date - ASunday) % 7 = 0
IsSaturday(date) == (date - ASunday) % 7 = 6

\* C26: for every day-group returned by build_rows, is_weekend is true if
\* and only if the group's date is a Sunday; Saturdays are never flagged.
C26_WeekendIsSundayOnly ==
    Built =>
        \A g \in 1..Len(Groups) :
            /\ Groups[g].is_weekend <=> IsSunday(Groups[g].date)
            /\ IsSaturday(Groups[g].date) => ~Groups[g].is_weekend

\* April 2024 walked to its end: Saturday the 6th is not flagged, Sunday
\* the 7th is, and four Sundays are flagged in all.
C26_Witness ==
    /\ Built
    /\ \E g \in 1..(Len(Groups) - 1) :
          /\ Groups[g].date = days_from_civil(2024, 4, 6)
          /\ ~Groups[g].is_weekend
          /\ Groups[g + 1].is_weekend
    /\ Cardinality({g \in 1..Len(Groups) : Groups[g].is_weekend}) = 4

\* The rows of a worker's block that are shown as an open session.
OpenRowsShown(w) ==
    LET block == BlockOf(in_progress_worker_items \o not_in_progress_worker_items, w)
    IN  {k \in 1..Len(block) : block[k].checked_out_time = EnProgreso}

\* The list a worker is in, its place in that list and its rows all come
\* from the one list of today's events.
FromOneSnapshot(w) ==
    LET e     == TodayEntries(w)
        open  == {i \in 1..Len(e) : e[i].clock_out = None}
        block == BlockOf(in_progress_worker_items \o not_in_progress_worker_items, w)
    IN  /\ (w.id \in IdsOf(in_progress_workers)) <=> (open # {})
        /\ (w.id \in IdsOf(not_in_progress_workers)) <=> (open = {})
        /\ WindowShown(in_progress_worker_items \o not_in_progress_worker_items, w)
        /\ (w.id \in IdsOf(in_progress_workers)) <=> (OpenRowsShown(w) # {})
        /\ \A k \in OpenRowsShown(w) :
              block[k].checked_in_time = FormatHMS(LocalTimeOfDay(OpenClockIn(w)))

Ran == IsSome(report_result)
RanOk == report_result = Some("Ok")
Run == Unwrap(report_call)
\* The worker sequence the store returned.
Listed == get_workers
\* The workers whose two files the loop wrote: the first write of the k-th
\* of them is the HTML file, the second the CSV file.
Reported == {k \in 1..Len(Listed) : 2 * k <= Len(writes)}
HtmlOf(k) == writes[2 * k - 1]
CsvOf(k) == writes[2 * k]
\* The merged document, written last by a run that succeeds.
Merged == writes[Len(writes)].contents

\* The places of a piece in a document.
PlacesOf(doc, piece) == {i \in 1..Len(doc) : doc[i] = piece}
\* The k-th smallest element of a set of numbers.
KthOf(S, k) == CHOOSE x \in S : Cardinality({y \in S : y < x}) = k - 1

RECURSIVE WellEscaped(_)
\* The text holds none of < > " ' and no & other than the first character
\* of one of the five entities.
WellEscaped(chars) ==
    IF chars = <<>> THEN TRUE
    ELSE IF Head(chars) \in {"<", ">", "\"", "'"} THEN FALSE
    ELSE IF Head(chars) = "&"
    THEN \E entity \in { <<"&", "a", "m", "p", ";">>, <<"&", "l", "t", ";">>,
                         <<"&", "g", "t", ";">>, <<"&", "q", "u", "o", "t", ";">>,
                         <<"&", "#", "3", "9", ";">> } :
            /\ Len(chars) >= Len(entity)
            /\ SubSeq(chars, 1, Len(entity)) = entity
            /\ WellEscaped(SubSeq(chars, Len(entity) + 1, Len(chars)))
    ELSE WellEscaped(Tail(chars))

\* The sites of a document where a worker name is substituted.
NameSites == {"title", "h1", "h2"}

\* C14: in every HTML document produced (single-worker report and merged
\* report) every place where a worker name is embedded holds the escaped
\* form of the name: no raw & < > " ' of a name reaches the output, the
\* document title included.
C14_NamesEscapedEverywhere ==
    \A w \in 1..Len(writes) :
        LET doc == writes[w].contents
        IN  \A i \in 1..Len(doc) :
                (doc[i].kind = "arg" /\ doc[i].site \in NameSites)
                    => WellEscaped(doc[i].chars)

\* C15: the merged report holds one section per worker, in the order of the
\* worker sequence the store returned, with a page-break marker immediately
\* before every section except the first: N - 1 markers for N >= 1 workers
\* and none before the first section.
C15_PageBreakBetweenSections ==
    (RanOk /\ Len(Listed) >= 1) =>
        LET heads  == PlacesOf(Merged, Lit("<h2>"))
            breaks == PlacesOf(Merged, PageBreak)
        IN  /\ files[merged_html_path(month_label(Run.month_key))] = Merged
            /\ Cardinality(heads) = Len(Listed)
            /\ Cardinality(breaks) = Len(Listed) - 1
            /\ \A k \in 1..Len(Listed) :
                  LET h == KthOf(heads, k)
                  IN  /\ Merged[h + 1] = Arg("h2", escape_html(Listed[k].name))
                      /\ (Merged[h - 1] = PageBreak) <=> (k > 1)
            /\ \A b \in breaks : b + 1 \in heads

\* Two workers with different names: their sections in store order, one
\* marker, between them.
C15_Witness ==
    /\ RanOk
    /\ Len(Listed) = 2
    /\ Listed[1].name # Listed[2].name
    /\ Cardinality(PlacesOf(Merged, PageBreak)) = 1
    /\ KthOf(PlacesOf(Merged, Lit("<h2>")), 1) < KthOf(PlacesOf(Merged, PageBreak), 1)

\* has_open_sessions as build_rows returned it for the k-th worker.
FlagOf(k) ==
    build_rows(timesheets, Listed[k].id, Run.month_key, Run.selected_date, Run.now)
        .has_open_sessions

\* The section of the k-th worker in the merged document.
SectionOf(k) ==
    LET heads == PlacesOf(Merged, Lit("<h2>"))
        last  == IF k < Len(Listed) THEN KthOf(heads, k + 1) - 1 ELSE Len(Merged)
    IN  SubSeq(Merged, KthOf(heads, k), last)

\* C16: the open-session footnote appears in a worker's HTML report, and in
\* that worker's section of the merged report, if and only if the worker's
\* has_open_sessions flag is true, and then exactly once.
C16_FootnoteIffOpenSessions ==
    /\ \A k \in Reported :
          Cardinality(PlacesOf(HtmlOf(k).contents, Footnote)) = (IF FlagOf(k) THEN 1 ELSE 0)
    /\ RanOk =>
          \A k \in 1..Len(Listed) :
              Cardinality(PlacesOf(SectionOf(k), Footnote)) = (IF FlagOf(k) THEN 1 ELSE 0)

\* Of two workers one has an open session and the other has none: one
\* report carries the footnote, the other does not, and the merged report
\* carries it once.
C16_Witness ==
    /\ RanOk
    /\ Len(Listed) = 2
    /\ \E k \in 1..2, j \in 1..2 :
          /\ FlagOf(k) /\ ~FlagOf(j)
          /\ PlacesOf(HtmlOf(k).contents, Footnote) # {}
          /\ PlacesOf(HtmlOf(j).contents, Footnote) = {}
    /\ Cardinality(PlacesOf(Merged, Footnote)) = 1

\* C18: in one run of generate_monthly_reports two distinct workers never
\* get the same output file path: after a successful run every worker's
\* HTML and CSV files exist and hold that worker's report, none overwritten
\* by the report of another worker.
C18_NoPathSharedByTwoWorkers ==
    RanOk =>
        \A k \in 1..Len(Listed) :
            /\ HtmlOf(k).path \in DOMAIN files
            /\ CsvOf(k).path \in DOMAIN files
            /\ files[HtmlOf(k).path] = HtmlOf(k).contents
            /\ files[CsvOf(k).path] = CsvOf(k).contents
            /\ \A j \in 1..Len(Listed) :
                  j # k => /\ HtmlOf(j).path # HtmlOf(k).path
                           /\ CsvOf(j).path # CsvOf(k).path

\* C20: when the store fails the monthly query of one worker, only that
\* worker's report is aborted: the reports of every other worker of the
\* sequence, before and after the failing one, are still produced.
C20_OtherWorkersStillReported ==
    (Ran /\ IsSome(Run.store_fail) /\ Unwrap(Run.store_fail) >= 1) =>
        \A j \in 1..Len(Listed) :
            j # Unwrap(Run.store_fail) =>
                LET month == month_label(Run.month_key)
                    sanitized_name == sanitize_filename(Listed[j].name)
                IN  /\ html_path(month, sanitized_name) \in DOMAIN files
                    /\ csv_path(month, sanitized_name) \in DOMAIN files

\* The write that failed in the last run, and the worker it belongs to.
IoFailed == Ran /\ IsSome(Run.io_fail)
FailedAt == Unwrap(Run.io_fail).at
FailedWorker == (FailedAt + 1) \div 2

\* C21: when writing a file fails for worker k during
\* generate_monthly_reports, the run returns an I/O error, no file of a
\* later worker and no merged file is written by that run, and the files
\* already written for the workers before k are left on disk unchanged.
C21_IoErrorKeepsEarlierFiles ==
    (IoFailed /\ FailedAt \in 1..(2 * Len(Listed))) =>
        /\ report_result = Some("Err(Io)")
        /\ Len(writes) = FailedAt - 1
        /\ merged_html_path(month_label(Run.month_key)) \notin DOMAIN files
        /\ \A j \in 1..(FailedWorker - 1) :
              /\ HtmlOf(j).path \in DOMAIN files
              /\ CsvOf(j).path \in DOMAIN files
              /\ files[HtmlOf(j).path] = HtmlOf(j).contents
              /\ files[CsvOf(j).path] = CsvOf(j).contents

\* The same for runs in which no two workers share a file name.
C21_HoldsWithDistinctPaths ==
    (\A j, k \in 1..Len(Listed) :
        j # k => sanitize_filename(Listed[j].name) # sanitize_filename(Listed[k].name))
    => C21_IoErrorKeepsEarlierFiles

\* The table rows of a document: the <tr> of the sessions and the row that
\* says there are none; in a CSV file the session lines and the empty line.
TableRowsOf(doc) ==
    {i \in 1..Len(doc) : doc[i].kind \in {"tr", "csv_row"}
                            \/ doc[i] \in {NoSessionsRow, CsvNoSessionsRow}}

\* A renderer given no day-group writes one row, the one that says so.
OneNoSessionsRow(doc, marker) ==
    /\ Cardinality(PlacesOf(doc, marker)) = 1
    /\ TableRowsOf(doc) = PlacesOf(doc, marker)

\* C22: a run of generate_monthly_reports for a month in which the store
\* lists no worker succeeds and its output contains a "no recorded
\* sessions" marker; and every renderer given an empty day-group sequence
\* writes exactly one "no sessions" row, not an empty table.
C22_ZeroWorkersSayNoSessions ==
    /\ (Ran /\ Len(Listed) = 0 /\ Run.store_fail = None /\ Run.io_fail = None) =>
          /\ RanOk
          /\ \E w \in 1..Len(writes) : PlacesOf(writes[w].contents, NoSessionsRow) # {}
    /\ Ran =>
          \A k \in 1..Len(Listed) :
              LET month == month_label(Run.month_key)
              IN  /\ OneNoSessionsRow(
                         write_html_report(Listed[k].name, month, <<>>, 0, FALSE),
                         NoSessionsRow)
                  /\ OneNoSessionsRow(
                         write_csv_report(Listed[k].name, month, <<>>, 0),
                         CsvNoSessionsRow)
                  /\ OneNoSessionsRow(
                         write_merged_html_report(
                             month, << [worker_name |-> Listed[k].name, day_groups |-> <<>>,
                                        total_minutes |-> 0, has_open_sessions |-> FALSE] >>),
                         NoSessionsRow)

\* The renderers' half of C22 on its own.
C22_RenderersOnNoDayGroups ==
    Len(Listed) >= 1 => C22_ZeroWorkersSayNoSessions

\* ------------------------------------------------------ claims, event log

\* One step seen from the event log: every event stays, with its id, its
\* worker and its clock-in, a recorded clock-out stays what it is, and what
\* is added is one open event at the end.
LogKeepsHistory ==
    /\ Len(timesheets') \in {Len(timesheets), Len(timesheets) + 1}
    /\ \A i \in 1..Len(timesheets) :
          /\ timesheets'[i].id = timesheets[i].id
          /\ timesheets'[i].worker_id = timesheets[i].worker_id
          /\ timesheets'[i].clock_in = timesheets[i].clock_in
          /\ IsSome(timesheets[i].clock_out) =>
                timesheets'[i].clock_out = timesheets[i].clock_out
    /\ Len(timesheets') = Len(timesheets) + 1 =>
          timesheets'[Len(timesheets')].clock_out = None

\* C25: the event log is append-only with respect to history: across any
\* sequence of scans, refreshes and report generations no event is deleted,
\* no event's worker_id or clock_in changes and a recorded clock_out never
\* changes; the only mutations are the appending of a new open event and
\* the setting of the clock_out of an open event, and refresh and report
\* generation mutate nothing.
C25_AppendOnlyLog ==
    [][/\ LogKeepsHistory
       /\ (TimerRefresh \/ report_result' # report_result) => timesheets' = timesheets]_vars

\* A session clocked in and out, a second one opened and closed at a later
\* instant, and a report generated along the way.
C25_Witness ==
    /\ Len(timesheets) = 2
    /\ IsSome(timesheets[1].clock_out)
    /\ IsSome(timesheets[2].clock_out)
    /\ Unwrap(timesheets[2].clock_out) > Unwrap(timesheets[1].clock_out)
    /\ Ran

\* ---------------------------------------------------- claims, scan handler

\* The worker that carries a barcode, as the workers table says.
KnownBarcode(barcode) == \E i \in 1..Len(workers) : workers[i].barcode = barcode
CarrierOf(barcode) == workers[CHOOSE i \in 1..Len(workers) : workers[i].barcode = barcode]

\* The step is the handler of this reading, accepted, of a known worker's
\* barcode, the store taking the statement.
AcceptedKnownScan(raw) ==
    /\ KnownBarcode(normalize(raw))
    /\ ~ScanIgnored(normalize(raw), now)
    /\ Scan(raw, TRUE)

\* The step toggles worker w and nothing else.
Toggles(w) ==
    IF OpenRowsOf(w.id) # {}
    THEN /\ Len(timesheets') = Len(timesheets)
         /\ \A i \in 1..Len(timesheets) :
               timesheets'[i] = (IF i \in OpenRowsOf(w.id)
                                 THEN [timesheets[i] EXCEPT !.clock_out = Some(now)]
                                 ELSE timesheets[i])
         /\ \A i \in 1..Len(timesheets') :
               timesheets'[i].worker_id = w.id => IsSome(timesheets'[i].clock_out)
    ELSE /\ Len(timesheets') = Len(timesheets) + 1
         /\ \A i \in 1..Len(timesheets) : timesheets'[i] = timesheets[i]
         /\ timesheets'[Len(timesheets')].worker_id = w.id
         /\ timesheets'[Len(timesheets')].clock_in = now
         /\ timesheets'[Len(timesheets')].clock_out = None

\* C27: an accepted scan of a known worker's barcode toggles that worker
\* and nothing else: if the worker has an open event, that event's
\* clock_out is set and no event is added; otherwise exactly one new open
\* event of that worker is appended; the events of every other worker are
\* unchanged, so consecutive accepted scans of one worker alternate
\* clock-in and clock-out.
C27_AcceptedScanTogglesOneWorker ==
    [][\A raw \in RawBarcodes :
           AcceptedKnownScan(raw) => Toggles(CarrierOf(normalize(raw)))]_vars

\* Three accepted scans of one worker, in, out and in again, while the
\* other worker's session, opened in between, stays open as it was.
C27_Witness ==
    /\ Len(timesheets) = 3
    /\ timesheets[1].worker_id = timesheets[3].worker_id
    /\ timesheets[2].worker_id # timesheets[1].worker_id
    /\ IsSome(timesheets[1].clock_out)
    /\ timesheets[2].clock_out = None
    /\ timesheets[3].clock_out = None
    /\ IsSome(last_scan_barcode)
    /\ KnownBarcode(Unwrap(last_scan_barcode))
    /\ CarrierOf(Unwrap(last_scan_barcode)).id = timesheets[3].worker_id

\* The reading repeats the barcode of the last accepted scan less than two
\* seconds after it.
RepeatsWithinTwoSeconds(barcode) ==
    /\ last_scan_barcode = Some(barcode)
    /\ last_scan_time # None
    /\ now - Unwrap(last_scan_time) < 2

\* What the handler can do with a reading in the present state: change
\* anything at all, or record the reading as the last scan while the store
\* refuses the statement.
ScanChangesSomething(raw, store_ok) == Scan(raw, store_ok) /\ vars' # vars
ScanIsRecorded(raw) ==
    /\ Scan(raw, FALSE)
    /\ last_scan_time' = Some(now)
    /\ last_scan_barcode' = Some(normalize(raw))
    /\ scan_vars' # scan_vars
    /\ timesheets' = timesheets

\* C28: a scan is ignored if and only if its normalized barcode equals that
\* of the last accepted scan and it arrives less than 2 seconds after that
\* scan; an ignored scan leaves the event log and the recorded last-scan
\* time and barcode unchanged, so the window is measured from the last
\* accepted scan; a scan of a different barcode is never ignored, however
\* soon it arrives.
C28_IgnoredIffRepeatWithinWindow ==
    \A raw \in RawBarcodes :
        IF RepeatsWithinTwoSeconds(normalize(raw))
        THEN \A store_ok \in BOOLEAN : ~ENABLED ScanChangesSomething(raw, store_ok)
        ELSE ENABLED ScanIsRecorded(raw)

\* A worker has clocked in a second ago: the same barcode, also read with
\* the scanner's line ending, is ignored now, the other worker's barcode is
\* accepted and clocks that worker in.
C28_Witness ==
    /\ last_scan_barcode = Some(<<"1">>)
    /\ last_scan_time = Some(now - 1)
    /\ Len(timesheets) = 1
    /\ timesheets[1].clock_out = None
    /\ ~ENABLED ScanChangesSomething(<<" ", "1", "\n">>, TRUE)
    /\ ENABLED (Scan(<<"2">>, TRUE) /\ Len(timesheets') = 2)

\* C29: the live view agrees with the scan handler about who is clocked
\* in: once the view has been refreshed for the day the clock shows, a
\* worker is listed in InProgress if and only if the next accepted scan of
\* that worker's barcode would record a clock-out, also for a session that
\* was opened on an earlier day and is still open.
C29_ViewAgreesWithScanHandler ==
    view_today = UtcDate(now) =>
        \A i \in 1..Len(get_workers) :
            (get_workers[i].id \in IdsOf(in_progress_workers))
                <=> IsSome(get_current_status(timesheets, get_workers[i].id))

Called(fn) == IsSome(fn_call) /\ Unwrap(fn_call).fn = fn
FnArg == Unwrap(fn_call).arg
FnResult == Unwrap(fn_result)

\* C17: sanitize_filename returns one output character per input character,
\* each ASCII-alphanumeric character kept and every other character replaced
\* by '_'; a name without any ASCII-alphanumeric character, the empty name
\* included, yields the fixed placeholder "worker".
C17_SanitizePerCharOrPlaceholder ==
    Called("sanitize_filename") =>
        IF \E i \in 1..Len(FnArg) : FnArg[i] \in AsciiLetters \cup {"0", "1", "2", "3", "4", "5", "6", "7", "8", "9"}
        THEN /\ Len(FnResult) = Len(FnArg)
             /\ \A i \in 1..Len(FnArg) :
                   FnResult[i] =
                       (IF FnArg[i] \in AsciiLetters
                                        \cup {"0", "1", "2", "3", "4", "5", "6", "7", "8", "9"}
                        THEN FnArg[i] ELSE "_")
        ELSE FnResult = <<"w", "o", "r", "k", "e", "r">>

\* The value of a decimal digit, -1 for any other character.
DigitValue(c) ==
    IF \E d \in 0..9 : Digits[d + 1] = c THEN CHOOSE d \in 0..9 : Digits[d + 1] = c ELSE -1

RECURSIVE ParseDecimal(_)
\* The number a string of decimal digits denotes.
ParseDecimal(chars) ==
    IF chars = <<>> THEN 0
    ELSE 10 * ParseDecimal(SubSeq(chars, 1, Len(chars) - 1)) + DigitValue(chars[Len(chars)])

\* C19: for every minute count m >= 0, format_duration(m) is m div 60
\* zero-padded to two digits, a colon, and m mod 60 (always in 0..59)
\* zero-padded to two digits; format_duration(125) = "02:05" and
\* format_duration(0) = "00:00".
C19_FormatDurationHHMM ==
    Called("format_duration") =>
        LET m      == FnArg
            r      == FnResult
            colons == {i \in 1..Len(r) : r[i] = ":"}
            c      == CHOOSE i \in colons : TRUE
            hh     == SubSeq(r, 1, c - 1)
            mm     == SubSeq(r, c + 1, Len(r))
        IN  /\ Cardinality(colons) = 1
            /\ \A i \in 1..Len(r) : i # c => DigitValue(r[i]) >= 0
            /\ Len(mm) = 2
            /\ ParseDecimal(mm) = m % 60
            /\ ParseDecimal(mm) \in 0..59
            /\ ParseDecimal(hh) = m \div 60
            /\ Len(hh) >= 2
            /\ (Len(hh) > 2 => hh[1] # "0")
            /\ (m = 125 => r = <<"0", "2", ":", "0", "5">>)
            /\ (m = 0 => r = <<"0", "0", ":", "0", "0">>)

\* format_duration(125) was computed and is "02:05".
C19_Witness ==
    /\ Called("format_duration")
    /\ FnArg = 125
    /\ FnResult = <<"0", "2", ":", "0", "5">>

====
